---- MODULE Spec2Model ----
(***************************************************************************)
(* Model of the CUDA tracing JIT of enoki (src/src/cuda/trace.cu): the     *)
(* trace of Variables, the active set, the dirty queue, the reference      *)
(* counting, the trace builder and the scheduler/assembler of cuda_eval.   *)
(*                                                                         *)
(* uint32_t values are kept in two's complement: TLC's integers are 32 bit *)
(* wide, so a negative number r stands for the uint32_t value r + 2^32.    *)
(* Device pointers are indices into mem (0 is nullptr).  The comment       *)
(* field of a Variable only shows in the emitted text and is left out.     *)
(***************************************************************************)
EXTENDS Integers, Sequences, FiniteSets, TLC

\* ------------------------------------------------------------------ bounds
MaxNodes == 3
MaxRef == 2
MaxDirty == 2
BigSize == 2
MaxPrintfArgs == 4

MaxCalls == 4
MaxHandleCalls == 6
MaxChainCalls == 6

\* ------------------------------------------------------- program constants
ENOKI_CUDA_REG_RESERVED == 10
U32Max == -1

R == ENOKI_CUDA_REG_RESERVED
Null == 0

VARIABLES trace, active, dirty, mem, freed, last

vars == <<trace, active, dirty, mem, freed, last>>

\* ------------------------------------------------------------------ helpers
Range(s) == {s[i] : i \in DOMAIN s}

\* the smaller of two sizes
Min2(a, b) == IF a < b THEN a ELSE b

Max2(a, b) == IF a < b THEN b ELSE a

\* F(v), with v evaluated once: the statements of the code run one after another
Then(v, F(_)) == CHOOSE y \in {F(x) : x \in {v}} : TRUE

SetToFcn(S, v) == [x \in S |-> v]

\* std::vector<Variable>: a function on 0..n-1
TrSize(tr) == Cardinality(DOMAIN tr)

EmptyTrace == [i \in {} |-> 0]

\* an emplace_back that takes the place of the last variable
PushOver(tr, v) ==
    IF TrSize(tr) > R THEN [tr EXCEPT ![TrSize(tr) - 1] = v]
    ELSE tr @@ (TrSize(tr) :> v)

PushBack(tr, v) == tr @@ (TrSize(tr) :> v)

\* uint32_t ++ and --
U32Inc(x) == IF x = U32Max THEN 0 ELSE x + 1

U32Dec(x) == IF x = 0 THEN U32Max ELSE x - 1

\* uint32_t +, on the 16-bit halves of the operands
Half == 65536

U32Lo(x) == x % Half

U32Hi(x) == (x \div Half) % Half

U32Make(hi, lo) == (IF hi >= Half \div 2 THEN hi - Half ELSE hi) * Half + lo

\* the carry out of bit 31 of a + b
U32Carry(a, b) == U32Hi(a) + U32Hi(b) + (U32Lo(a) + U32Lo(b)) \div Half >= Half

U32Add(a, b) ==
    U32Make((U32Hi(a) + U32Hi(b) + (U32Lo(a) + U32Lo(b)) \div Half) % Half,
            (U32Lo(a) + U32Lo(b)) % Half)

\* uint32_t <
U32Less(a, b) == IF (a < 0) = (b < 0) THEN a < b ELSE b < 0

\* ------------------------------------------------------------ type registry
EnokiTypes == {"Invalid", "Int8", "UInt8", "Int16", "UInt16", "Int32", "UInt32",
               "Int64", "UInt64", "Float16", "Float32", "Float64", "Bool", "Pointer"}

\* (size_t) -1 is kept as -1
cuda_register_size(type) ==
    CASE type \in {"UInt8", "Int8", "Bool"} -> 1
      [] type \in {"UInt16", "Int16"} -> 2
      [] type \in {"UInt32", "Int32"} -> 4
      [] type \in {"Pointer", "UInt64", "Int64"} -> 8
      [] type = "Float32" -> 4
      [] type = "Float64" -> 8
      [] OTHER -> -1

\* nullptr is ""
cuda_register_type(type) ==
    CASE type = "UInt8" -> "u8"
      [] type = "Int8" -> "s8"
      [] type = "UInt16" -> "u16"
      [] type = "Int16" -> "s16"
      [] type = "UInt32" -> "u32"
      [] type = "Int32" -> "s32"
      [] type \in {"Pointer", "UInt64"} -> "u64"
      [] type = "Int64" -> "s64"
      [] type = "Float16" -> "f16"
      [] type = "Float32" -> "f32"
      [] type = "Float64" -> "f64"
      [] type = "Bool" -> "pred"
      [] OTHER -> ""

cuda_register_type_bin(type) ==
    CASE type \in {"UInt8", "Int8"} -> "b8"
      [] type \in {"UInt16", "Float16", "Int16"} -> "b16"
      [] type \in {"Float32", "UInt32", "Int32"} -> "b32"
      [] type \in {"Pointer", "Float64", "UInt64", "Int64"} -> "b64"
      [] type = "Bool" -> "pred"
      [] OTHER -> ""

cuda_register_name(type) ==
    CASE type \in {"UInt8", "Int8"} -> "%b"
      [] type \in {"UInt16", "Int16"} -> "%w"
      [] type \in {"UInt32", "Int32"} -> "%r"
      [] type \in {"Pointer", "UInt64", "Int64"} -> "%rd"
      [] type = "Float32" -> "%f"
      [] type = "Float64" -> "%d"
      [] type = "Bool" -> "%p"
      [] OTHER -> ""

\* ------------------------------------------------------------------ Variable
Variable(type) ==
    [type |-> type, cmd |-> <<>>, size |-> 1, data |-> Null,
     ref_count_ext |-> 0, ref_count_int |-> 0, dep |-> <<0, 0, 0>>,
     side_effect |-> FALSE, dirty |-> FALSE, free |-> TRUE, subtree_size |-> 0]

is_collected(v) == v.ref_count_int = 0 /\ v.ref_count_ext = 0

\* The machine a call works on.  err is the exception in flight ("" for none):
\* once it is set every later statement of the call is skipped.  n_eval counts
\* the runs of cuda_eval in this call, sweeps lists the buckets of the last one
\* in the order they are worked on, n_run counts the kernels launched, and
\* freed_now lists the variables cuda_var_free has run on in this call.  freed
\* holds every variable cuda_var_free has ever run on.
Machine ==
    [tr |-> trace, active |-> active, dirty |-> dirty, mem |-> mem,
     freed |-> freed, err |-> "", n_eval |-> 0, n_run |-> 0, sweeps |-> <<>>,
     reg_maps |-> <<>>, freed_now |-> <<>>, oob |-> 0]

Throw(m, what) == [m EXCEPT !.err = what]

\* Device memory.  A buffer is named after the variable whose data field first
\* holds it (the code never copies a pointer from one variable to another), so
\* mem[p] counts the allocations and the releases of the buffer of variable p.
NoBuffer == [bytes |-> 0, allocs |-> 0, frees |-> 0]

\* cudaFree: nothing for nullptr, else one more release of the buffer
cudaFree(m, ptr) ==
    IF ptr = Null THEN m ELSE [m EXCEPT !.mem[ptr].frees = @ + 1]

\* cudaMalloc(&tr[index].data, bytes)
cudaMalloc(m, index, bytes) ==
    [m EXCEPT !.mem[index] = [bytes |-> bytes, allocs |-> @.allocs + 1,
                              frees |-> @.frees],
              !.tr[index].data = index]

\* ------------------------------------------------------- reference counting
cuda_inc_ref_ext(m, index) ==
    IF m.err # "" \/ index < R THEN m
    ELSE [m EXCEPT !.tr[index].ref_count_ext = U32Inc(@)]

cuda_inc_ref_int(m, index) ==
    IF m.err # "" \/ index < R THEN m
    ELSE [m EXCEPT !.tr[index].ref_count_int = U32Inc(@)]

RECURSIVE cuda_dec_ref_int(_, _)
RECURSIVE cuda_var_free(_, _)
RECURSIVE cuda_var_free_deps(_, _, _)

\* the loop of cuda_var_free, from slot i on
cuda_var_free_deps(m, idx, i) ==
    IF m.err # "" \/ i > 3 THEN m
    ELSE Then(cuda_dec_ref_int(m, m.tr[idx].dep[i]), LAMBDA m1 :
         Then(IF m1.err # "" THEN m1 ELSE [m1 EXCEPT !.tr[idx].dep[i] = 0], LAMBDA m2 :
              cuda_var_free_deps(m2, idx, i + 1)))

\* a cuda_var_free that forgets the buffer
var_free_leak(m, idx) ==
    IF m.err # "" THEN m
    ELSE Then(cuda_var_free_deps(m, idx, 1), LAMBDA m1 :
         IF m1.err # "" THEN m1
         ELSE [m1 EXCEPT !.tr[idx].data = Null, !.freed = @ \cup {idx},
                         !.freed_now = Append(@, idx)])

\* a cuda_var_free that frees the buffer and leaves the dependencies alone
var_free_shallow(m, idx) ==
    IF m.err # "" THEN m
    ELSE Then(IF m.tr[idx].free THEN cudaFree(m, m.tr[idx].data) ELSE m, LAMBDA m2 :
              [m2 EXCEPT !.tr[idx].data = Null, !.freed = @ \cup {idx},
                         !.freed_now = Append(@, idx)])

cuda_var_free(m, idx) ==
    IF m.err # "" THEN m
    ELSE Then(cuda_var_free_deps(m, idx, 1), LAMBDA m1 :
         IF m1.err # "" THEN m1
         ELSE Then(IF m1.tr[idx].free THEN cudaFree(m1, m1.tr[idx].data) ELSE m1,
                   LAMBDA m2 :
                   [m2 EXCEPT !.tr[idx].data = Null, !.freed = @ \cup {idx},
                              !.freed_now = Append(@, idx)]))

\* a cuda_dec_ref_int that does not skip the reserved variables
dec_ref_int_any(m, index) ==
    IF m.err # "" THEN m ELSE [m EXCEPT !.tr[index].ref_count_int = U32Dec(@)]

cuda_dec_ref_int(m, index) ==
    IF m.err # "" \/ index < R THEN m
    ELSE IF TrSize(m.tr) = 0 THEN Throw(m, "CUDA tracing JIT is uninitialized!")
    ELSE Then([m EXCEPT !.tr[index].ref_count_int = U32Dec(@)], LAMBDA m1 :
              IF is_collected(m1.tr[index]) THEN cuda_var_free(m1, index) ELSE m1)

\* a cuda_dec_ref_ext that leaves __active alone
dec_ref_ext_keep(m, index) ==
    IF m.err # "" \/ index < R \/ TrSize(m.tr) = 0 THEN m
    ELSE IF m.tr[index].ref_count_ext = 0
         THEN Throw(m, "cuda_dec_ref_ext(): Negative reference count!")
    ELSE Then([m EXCEPT !.tr[index].ref_count_ext = @ - 1], LAMBDA m1 :
              IF is_collected(m1.tr[index]) THEN cuda_var_free(m1, index) ELSE m1)

cuda_dec_ref_ext(m, index) ==
    IF m.err # "" \/ index < R \/ TrSize(m.tr) = 0 THEN m
    ELSE IF m.tr[index].ref_count_ext = 0
         THEN Throw(m, "cuda_dec_ref_ext(): Negative reference count!")
    ELSE Then([m EXCEPT !.tr[index].ref_count_ext = @ - 1], LAMBDA m1 :
         Then(IF m1.tr[index].ref_count_ext = 0
              THEN [m1 EXCEPT !.active = @ \ {index}] ELSE m1, LAMBDA m2 :
              IF is_collected(m2.tr[index]) THEN cuda_var_free(m2, index) ELSE m2))

cuda_var_mark_side_effect(m, index) ==
    IF m.err # "" THEN m ELSE [m EXCEPT !.tr[index].side_effect = TRUE]

cuda_var_mark_dirty(m, index) ==
    IF m.err # "" THEN m
    ELSE [m EXCEPT !.tr[index].dirty = TRUE, !.dirty = Append(@, index)]

cuda_var_set_size(m, index, size) ==
    IF m.err # "" THEN m ELSE [m EXCEPT !.tr[index].size = size]

\* ----------------------------------------------------------- code generation
Ascii(c) ==
    CASE c = "0" -> 48 [] c = "1" -> 49 [] c = "2" -> 50 [] c = "3" -> 51
      [] c = "4" -> 52 [] c = "5" -> 53 [] c = "6" -> 54 [] c = "7" -> 55
      [] c = "8" -> 56 [] c = "9" -> 57 [] c = "$" -> 36 [] c = "," -> 44
      [] c = " " -> 32 [] c = ";" -> 59 [] c = "\n" -> 10 [] c = "b" -> 98
      [] c = "r" -> 114 [] c = "t" -> 116 [] c = "x" -> 120

\* a loop that does not advance n_vars
RegMapShared(sweep, i, reg_map) == [index \in Range(sweep) |-> R]

RECURSIVE RegMapFrom(_, _, _)

\* the loop of cuda_jit_assemble that fills reg_map: reg_map[index] = n_vars++
RegMapFrom(sweep, i, reg_map) ==
    IF i > Len(sweep) THEN reg_map
    ELSE RegMapFrom(sweep, i + 1,
                    (sweep[i] :> (R + i - 1)) @@ reg_map)

\* reg_map of cuda_jit_assemble, with reg_map[2] = 2 set last
RegMap(sweep) == (2 :> 2) @@ RegMapFrom(sweep, 1, EmptyTrace)

\* dep of cuda_render_cmd for the digit dep_offset; oob is the value a read
\* past the ends of dep yields (undefined behaviour)
RenderDep(v, index, dep_offset, oob) ==
    IF dep_offset = 1 THEN index
    ELSE IF dep_offset \in 2..4 THEN v.dep[dep_offset - 1]
    ELSE oob

RenderResult(type, dep_type) ==
    IF type = "t" THEN cuda_register_type(dep_type)
    ELSE IF type = "b" THEN cuda_register_type_bin(dep_type)
    ELSE cuda_register_name(dep_type)

RECURSIVE render_from(_, _, _, _, _, _)

\* the loop of cuda_render_cmd from character i (counted from 1) on
render_from(tr, reg_map, index, i, out, oob) ==
    IF i > Len(tr[index].cmd) THEN [err |-> "", out |-> out]
    ELSE IF tr[index].cmd[i] # "$" \/ i + 2 > Len(tr[index].cmd)
    THEN render_from(tr, reg_map, index, i + 1, Append(out, tr[index].cmd[i]), oob)
    ELSE Then([type |-> tr[index].cmd[i + 1],
               dep_offset |-> (Ascii(tr[index].cmd[i + 2]) - Ascii("0")) % 256],
              LAMBDA c :
         Then(RenderDep(tr[index], index, c.dep_offset, oob), LAMBDA dep :
              IF c.type \notin {"t", "b", "r"}
              THEN [err |-> "cuda_render_cmd: invalid '$' template!", out |-> out]
              ELSE IF c.dep_offset < 1 /\ c.dep_offset > 4
              THEN [err |-> "cuda_render_cmd: out of bounds!", out |-> out]
              ELSE IF dep < 0 \/ dep >= TrSize(tr)
              THEN [err |-> "cuda_render_cmd: out of bounds!", out |-> out]
              ELSE Then(RenderResult(c.type, tr[dep].type), LAMBDA result :
                   IF result = ""
                   THEN [err |-> "CUDABackend: internal error -- unsupported type",
                         out |-> out]
                   ELSE IF c.type = "r" /\ dep \notin DOMAIN reg_map
                   THEN [err |-> "CUDABackend: internal error -- variable not found!",
                         out |-> Append(out, result)]
                   ELSE render_from(tr, reg_map, index, i + 3,
                                    IF c.type = "r"
                                    THEN Append(Append(out, result), reg_map[dep])
                                    ELSE Append(out, result), oob))))

cuda_render_cmd(tr, reg_map, index, oob) ==
    Then(render_from(tr, reg_map, index, 1, <<"    ">>, oob), LAMBDA r :
         IF r.err = "" /\ tr[index].cmd # <<>>
                       /\ tr[index].cmd[Len(tr[index].cmd)] # "\n"
         THEN [r EXCEPT !.out = Append(Append(@, ";"), "\n")] ELSE r)

\* size_t product, (size_t) -1 of an unsupported type kept negative
SizeInBytes(v) == v.size * cuda_register_size(v.type)

\* a cuda_jit_assemble that gives no computed variable a buffer
assemble_discard(m, size, index) == m

\* a store that does not look at the external reference count
assemble_store_unreferenced(m, size, index) ==
    IF m.err # "" \/ m.tr[index].size # size THEN m
    ELSE IF SizeInBytes(m.tr[index]) < 0 THEN Throw(m, "cudaMalloc: out of memory")
    ELSE cudaMalloc(m, index, SizeInBytes(m.tr[index]))

\* the end of the loop body of cuda_jit_assemble for a computed variable, after
\* its command is rendered and its side effect released
assemble_store(m, size, index) ==
    IF m.err # "" \/ m.tr[index].ref_count_ext = 0 \/ m.tr[index].size # size THEN m
    ELSE IF SizeInBytes(m.tr[index]) < 0 THEN Throw(m, "cudaMalloc: out of memory")
    ELSE cudaMalloc(m, index, SizeInBytes(m.tr[index]))

\* a loop body that leaves the external reference of a side-effect variable
assemble_one_keep(m, size, reg_map, index) ==
    IF is_collected(m.tr[index]) \/ (m.tr[index].cmd = <<>> /\ m.tr[index].data = Null)
    THEN Throw(m, "CUDABackend: found invalid/expired variable in schedule!")
    ELSE IF m.tr[index].size # 1 /\ m.tr[index].size # size
    THEN Throw(m, "CUDABackend: encountered arrays of incompatible size!")
    ELSE IF m.tr[index].data # Null THEN m
    ELSE Then(cuda_render_cmd(m.tr, reg_map, index, m.oob), LAMBDA r :
         IF r.err # "" THEN Throw(m, r.err) ELSE assemble_store(m, size, index))

\* a loop body without the test of the sizes
assemble_one_anysize(m, size, reg_map, index) ==
    IF is_collected(m.tr[index]) \/ (m.tr[index].cmd = <<>> /\ m.tr[index].data = Null)
    THEN Throw(m, "CUDABackend: found invalid/expired variable in schedule!")
    ELSE IF m.tr[index].data # Null THEN m
    ELSE Then(cuda_render_cmd(m.tr, reg_map, index, m.oob), LAMBDA r :
         IF r.err # "" THEN Throw(m, r.err)
         ELSE Then(IF m.tr[index].side_effect THEN cuda_dec_ref_ext(m, index) ELSE m,
                   LAMBDA m1 : assemble_store(m1, size, index)))

\* a loop body that releases a reference of every variable it computes
assemble_one_release(m, size, reg_map, index) ==
    IF is_collected(m.tr[index]) \/ (m.tr[index].cmd = <<>> /\ m.tr[index].data = Null)
    THEN Throw(m, "CUDABackend: found invalid/expired variable in schedule!")
    ELSE IF m.tr[index].size # 1 /\ m.tr[index].size # size
    THEN Throw(m, "CUDABackend: encountered arrays of incompatible size!")
    ELSE IF m.tr[index].data # Null THEN m
    ELSE Then(cuda_render_cmd(m.tr, reg_map, index, m.oob), LAMBDA r :
         IF r.err # "" THEN Throw(m, r.err)
         ELSE Then(cuda_dec_ref_ext(m, index),
                   LAMBDA m1 : assemble_store(m1, size, index)))

\* the loop body of cuda_jit_assemble for sweep entry index
assemble_one(m, size, reg_map, index) ==
    IF is_collected(m.tr[index]) \/ (m.tr[index].cmd = <<>> /\ m.tr[index].data = Null)
    THEN Throw(m, "CUDABackend: found invalid/expired variable in schedule!")
    ELSE IF m.tr[index].size # 1 /\ m.tr[index].size # size
    THEN Throw(m, "CUDABackend: encountered arrays of incompatible size!")
    ELSE IF m.tr[index].data # Null THEN m
    ELSE Then(cuda_render_cmd(m.tr, reg_map, index, m.oob), LAMBDA r :
         IF r.err # "" THEN Throw(m, r.err)
         ELSE Then(IF m.tr[index].side_effect THEN cuda_dec_ref_ext(m, index) ELSE m,
                   LAMBDA m1 : assemble_store(m1, size, index)))

RECURSIVE assemble_from(_, _, _, _, _)

\* the loop of cuda_jit_assemble over the sweep, from entry i on
assemble_from(m, size, sweep, reg_map, i) ==
    IF m.err # "" \/ i > Len(sweep) THEN m
    ELSE Then(assemble_one(m, size, reg_map, sweep[i]), LAMBDA m1 :
              assemble_from(m1, size, sweep, reg_map, i + 1))

cuda_jit_assemble(m, size, sweep) ==
    Then(RegMap(sweep), LAMBDA reg_map :
         assemble_from([m EXCEPT !.reg_maps = Append(@, reg_map)], size, sweep,
                       reg_map, 1))

\* ----------------------------------------------------------------- scheduling
Swap(d, i, j) == [d EXCEPT ![i] = d[j], ![j] = d[i]]

\* prio of sweep_recursive, slot i counted from 1
prio(tr, deps, i) ==
    IF deps[i] >= R THEN tr[deps[i]].subtree_size ELSE 0

\* a sweep_recursive that visits the operands in the order of their slots
sort_deps_asis(tr, dep) == dep

\* the three conditional swaps of sweep_recursive
sort_deps(tr, dep) ==
    Then(IF U32Less(prio(tr, dep, 2), prio(tr, dep, 3)) THEN Swap(dep, 1, 2) ELSE dep,
         LAMBDA d1 :
    Then(IF U32Less(prio(tr, d1, 1), prio(tr, d1, 3)) THEN Swap(d1, 1, 3) ELSE d1,
         LAMBDA d2 :
         IF U32Less(prio(tr, d2, 1), prio(tr, d2, 2)) THEN Swap(d2, 1, 2) ELSE d2))

RECURSIVE sweep_recursive(_, _, _)
RECURSIVE sweep_deps(_, _, _, _)

\* the loop of sweep_recursive over the sorted deps, from slot i on
sweep_deps(tr, st, deps, i) ==
    IF i > 3 THEN st
    ELSE Then(IF deps[i] >= R THEN sweep_recursive(tr, st, deps[i]) ELSE st,
              LAMBDA st1 : sweep_deps(tr, st1, deps, i + 1))

\* a sweep_recursive that does not look at the visited set
sweep_unvisited(tr, st, idx) ==
    Then(sort_deps(tr, tr[idx].dep), LAMBDA deps :
    Then(sweep_deps(tr, st, deps, 1), LAMBDA st2 :
         [st2 EXCEPT !.sweep = Append(@, idx)]))

\* st is the pair (visited, sweep) of one bucket
sweep_recursive(tr, st, idx) ==
    IF idx \in st.visited THEN st
    ELSE Then(sort_deps(tr, tr[idx].dep), LAMBDA deps :
         Then(sweep_deps(tr, [st EXCEPT !.visited = @ \cup {idx}], deps, 1),
              LAMBDA st2 : [st2 EXCEPT !.sweep = Append(@, idx)]))

RECURSIVE BuildSweeps(_, _, _, _)

\* the first loop of cuda_eval: order is the iteration order of __active, and
\* sweeps maps a size to its pair (visited, sweep)
BuildSweeps(tr, order, i, sweeps) ==
    IF i > Len(order) THEN sweeps
    ELSE Then([sweeps EXCEPT ![tr[order[i]].size] = sweep_recursive(tr, @, order[i])],
              LAMBDA s1 : BuildSweeps(tr, order, i + 1, s1))

\* a collapse that zeroes the slots and leaves the counts of the operands
collapse_deps_uncounted(m, idx, j) ==
    IF m.err # "" THEN m ELSE [m EXCEPT !.tr[idx].dep = <<0, 0, 0>>]

RECURSIVE collapse_deps(_, _, _)

\* for (j < 3) { cuda_dec_ref_int(v.dep[j]); v.dep[j] = 0; } from slot j on
collapse_deps(m, idx, j) ==
    IF m.err # "" \/ j > 3 THEN m
    ELSE Then(cuda_dec_ref_int(m, m.tr[idx].dep[j]), LAMBDA m1 :
         Then(IF m1.err # "" THEN m1 ELSE [m1 EXCEPT !.tr[idx].dep[j] = 0], LAMBDA m2 :
              collapse_deps(m2, idx, j + 1)))

RECURSIVE collapse_from(_, _, _)

\* the loop of cuda_eval that releases the edges of the evaluated variables
collapse_from(m, schedule, i) ==
    IF m.err # "" \/ i > Len(schedule) THEN m
    ELSE Then(IF m.tr[schedule[i]].data # Null /\ m.tr[schedule[i]].cmd # <<>>
              THEN collapse_deps(m, schedule[i], 1) ELSE m, LAMBDA m1 :
              collapse_from(m1, schedule, i + 1))

\* cuda_jit_run: the kernel of the bucket is linked and launched
cuda_jit_run(m, size, schedule) ==
    IF m.err # "" THEN m ELSE [m EXCEPT !.n_run = @ + 1]

RECURSIVE eval_buckets(_, _, _, _)

\* the loop of cuda_eval over the buckets; order is the iteration order of sweeps
eval_buckets(m, sweeps, order, i) ==
    IF m.err # "" \/ i > Len(order) THEN m
    ELSE Then(cuda_jit_assemble(m, order[i], sweeps[order[i]].sweep), LAMBDA m1 :
         Then(cuda_jit_run(m1, order[i], sweeps[order[i]].sweep), LAMBDA m2 :
         Then(collapse_from(m2, sweeps[order[i]].sweep, 1), LAMBDA m3 :
              eval_buckets(m3, sweeps, order, i + 1))))

RECURSIVE ClearDirty(_, _, _)

\* a cuda_eval that forgets the flags of the queued variables
KeepDirty(tr, queue, i) == tr

\* for (uint32_t idx : __dirty) tr[idx].dirty = false, from entry i on
ClearDirty(tr, queue, i) ==
    IF i > Len(queue) THEN tr
    ELSE Then(IF queue[i] \in DOMAIN tr THEN [tr EXCEPT ![queue[i]].dirty = FALSE]
              ELSE tr, LAMBDA tr1 :
              ClearDirty(tr1, queue, i + 1))

\* a cuda_eval that leaves the seeds in __active
KeepActive(act) == act

\* __active.clear()
ClearActive(act) == {}

BucketSizes(tr, act) == {tr[i].size : i \in act}

NoSweeps(sizes) ==
    SetToFcn(sizes, [visited |-> {}, sweep |-> <<>>])

\* ord.seeds: iteration order of __active; ord.buckets: iteration order of sweeps
cuda_eval(m, ord) ==
    IF m.err # "" THEN m
    ELSE Then(BuildSweeps(m.tr, ord.seeds, 1, NoSweeps(BucketSizes(m.tr, m.active))),
              LAMBDA sweeps :
         Then([m EXCEPT !.tr = ClearDirty(@, m.dirty, 1), !.active = ClearActive(@),
                        !.dirty = <<>>, !.n_eval = @ + 1, !.reg_maps = <<>>,
                        !.sweeps = [i \in DOMAIN ord.buckets |->
                                      [size |-> ord.buckets[i],
                                       schedule |-> sweeps[ord.buckets[i]].sweep]]],
              LAMBDA m1 : eval_buckets(m1, sweeps, ord.buckets, 1)))

\* ------------------------------------------------------------- trace append
\* tr.emplace_back(type) and the assignments to var
Insert(m, type, cmd, size, dep, subtree) ==
    [m EXCEPT !.tr = PushBack(@, [Variable(type) EXCEPT !.size = size, !.dep = dep,
                                     !.cmd = cmd, !.subtree_size = subtree]),
              !.mem = PushBack(@, NoBuffer)]

Activate(m, idx) == [m EXCEPT !.active = @ \cup {idx}]

cuda_trace_append0(m, type, cmd) ==
    Then(Insert(m, type, cmd, 1, <<0, 0, 0>>, 1), LAMBDA m1 :
         Activate(cuda_inc_ref_ext(m1, TrSize(m.tr)), TrSize(m.tr)))

\* cuda_trace_append with one operand and no evaluation of a dirty operand
append1_unguarded(m, type, cmd, arg1, ord) ==
    Then(Insert(m, type, cmd, m.tr[arg1].size, <<arg1, 0, 0>>,
                U32Add(m.tr[arg1].subtree_size, 1)), LAMBDA m1 :
    Then(cuda_inc_ref_int(m1, arg1), LAMBDA m2 :
         Activate(cuda_inc_ref_ext(m2, TrSize(m.tr)), TrSize(m.tr))))

\* the appends with operands; ord fixes the iteration orders of the unordered
\* containers for the cuda_eval of the barrier
cuda_trace_append1(m, type, cmd, arg1, ord) ==
    Then(IF m.tr[arg1].dirty THEN cuda_eval(m, ord) ELSE m, LAMBDA m0 :
         IF m0.err # "" THEN m0
         ELSE Then(Insert(m0, type, cmd, m0.tr[arg1].size, <<arg1, 0, 0>>,
                          U32Add(m0.tr[arg1].subtree_size, 1)), LAMBDA m1 :
              Then(cuda_inc_ref_int(m1, arg1), LAMBDA m2 :
                   Activate(cuda_inc_ref_ext(m2, TrSize(m0.tr)), TrSize(m0.tr)))))

cuda_trace_append2(m, type, cmd, arg1, arg2, ord) ==
    Then(IF m.tr[arg1].dirty \/ m.tr[arg2].dirty THEN cuda_eval(m, ord) ELSE m,
         LAMBDA m0 :
         IF m0.err # "" THEN m0
         ELSE Then(Insert(m0, type, cmd, Max2(m0.tr[arg1].size, m0.tr[arg2].size),
                          <<arg1, arg2, 0>>,
                          U32Add(U32Add(m0.tr[arg1].subtree_size,
                                        m0.tr[arg2].subtree_size), 1)),
                   LAMBDA m1 :
              Then(cuda_inc_ref_int(m1, arg1), LAMBDA m2 :
              Then(cuda_inc_ref_int(m2, arg2), LAMBDA m3 :
                   Activate(cuda_inc_ref_ext(m3, TrSize(m0.tr)), TrSize(m0.tr))))))

cuda_trace_append3(m, type, cmd, arg1, arg2, arg3, ord) ==
    Then(IF m.tr[arg1].dirty \/ m.tr[arg2].dirty \/ m.tr[arg3].dirty
         THEN cuda_eval(m, ord) ELSE m, LAMBDA m0 :
         IF m0.err # "" THEN m0
         ELSE Then(Insert(m0, type, cmd,
                          Max2(Max2(m0.tr[arg1].size, m0.tr[arg2].size),
                               m0.tr[arg3].size),
                          <<arg1, arg2, arg3>>,
                          U32Add(U32Add(U32Add(m0.tr[arg1].subtree_size,
                                               m0.tr[arg2].subtree_size),
                                        m0.tr[arg3].subtree_size), 1)), LAMBDA m1 :
              Then(cuda_inc_ref_int(m1, arg1), LAMBDA m2 :
              Then(cuda_inc_ref_int(m2, arg2), LAMBDA m3 :
              Then(cuda_inc_ref_int(m3, arg3), LAMBDA m4 :
                   Activate(cuda_inc_ref_ext(m4, TrSize(m0.tr)), TrSize(m0.tr)))))))

\* a cuda_var_register that takes no reference to the parent
var_register_orphan(m, type, size, ptr, bytes, parent, dealloc) ==
    Then([m EXCEPT !.tr = PushBack(@, [Variable(type) EXCEPT
                                          !.dep = <<parent, 0, 0>>, !.cmd = <<>>,
                                          !.data = ptr, !.size = size,
                                          !.free = dealloc]),
                   !.mem = PushBack(@, IF ptr = Null THEN NoBuffer
                                       ELSE [bytes |-> bytes, allocs |-> 1,
                                             frees |-> 0])], LAMBDA m1 :
         cuda_inc_ref_ext(m1, TrSize(m.tr)))

\* ptr is the caller's buffer of bytes bytes (Null for none)
cuda_var_register(m, type, size, ptr, bytes, parent, dealloc) ==
    Then([m EXCEPT !.tr = PushBack(@, [Variable(type) EXCEPT
                                          !.dep = <<parent, 0, 0>>, !.cmd = <<>>,
                                          !.data = ptr, !.size = size,
                                          !.free = dealloc]),
                   !.mem = PushBack(@, IF ptr = Null THEN NoBuffer
                                       ELSE [bytes |-> bytes, allocs |-> 1,
                                             frees |-> 0])], LAMBDA m1 :
    Then(cuda_inc_ref_ext(m1, TrSize(m.tr)), LAMBDA m2 :
         cuda_inc_ref_int(m2, parent)))

\* the digit cuda_trace_printf writes for i + 2, i counted from 0
Digit(n) == <<"0", "1", "2", "3", "4", "5", "6", "7", "8", "9">>[n + 1]

RECURSIVE PrintfCmd(_, _, _)

\* the template cuda_trace_printf builds, from argument i (counted from 1) on:
\* its placeholders in order, the text between them left out, a line end last
PrintfCmd(tr, arg, i) ==
    IF i > Len(arg) THEN <<"\n">>
    ELSE (IF tr[arg[i]].type = "Float32" THEN <<"$", "r", Digit(i + 1)>>
          ELSE <<"$", "t", Digit(i + 1), "$", "r", Digit(i + 1)>>)
         \o PrintfCmd(tr, arg, i + 1)

\* idx is 0 when cuda_var_mark_side_effect is called
cuda_trace_printf(m, narg, arg, ord) ==
    Then(PrintfCmd(m.tr, arg, 1), LAMBDA cmd :
    Then(IF narg = 0 THEN cuda_trace_append0(m, "UInt32", cmd)
         ELSE IF narg = 1 THEN cuda_trace_append1(m, "UInt32", cmd, arg[1], ord)
         ELSE IF narg = 2
         THEN cuda_trace_append2(m, "UInt32", cmd, arg[1], arg[2], ord)
         ELSE IF narg = 3
         THEN cuda_trace_append3(m, "UInt32", cmd, arg[1], arg[2], arg[3], ord)
         ELSE Throw(m, "cuda_trace_print(): at most 3 variables can be printed at once!"),
         LAMBDA m1 : cuda_var_mark_side_effect(m1, 0)))

\* cudaMemcpy from tr[src].data: a null source is an error of the driver
cuda_fetch_element(m, src, ord) ==
    Then(IF m.tr[src].data = Null \/ m.tr[src].dirty THEN cuda_eval(m, ord) ELSE m,
         LAMBDA m0 :
         IF m0.err # "" THEN m0
         ELSE IF m0.tr[src].data = Null THEN Throw(m0, "cudaMemcpy: invalid value")
         ELSE m0)

\* ----------------------------------------------------------------- the state
cuda_init(m) ==
    [m EXCEPT !.tr = [i \in 0..(R - 1) |->
                        Variable(IF i = 0 THEN "Invalid"
                                 ELSE IF i = 1 THEN "UInt64" ELSE "UInt32")],
              !.active = {}]

\* the machine cuda_init leaves
Fresh ==
    cuda_init([tr |-> EmptyTrace, active |-> {}]) @@
    [dirty |-> <<>>, mem |-> [i \in 0..(R - 1) |-> NoBuffer], freed |-> {},
     err |-> "", n_eval |-> 0, n_run |-> 0, sweeps |-> <<>>, reg_maps |-> <<>>,
     freed_now |-> <<>>, oob |-> 0]

\* tr.clear() and __active.clear(); __dirty and the device memory stay
cuda_shutdown(m) == [m EXCEPT !.tr = EmptyTrace, !.active = {}]

\* a caller with budget calls to make takes over machine m
StartIn(m, budget) ==
    /\ trace = m.tr
    /\ active = m.active
    /\ dirty = m.dirty
    /\ mem = m.mem
    /\ freed = m.freed
    /\ last = [op |-> "cuda_init", args |-> <<>>, ret |-> 0, err |-> "",
               n_eval |-> 0, n_run |-> 0, sweeps |-> <<>>, reg_maps |-> <<>>,
               dirty_arg |-> FALSE,
               freed_now |-> <<>>,
               pre |-> [tr |-> EmptyTrace, active |-> {}, dirty |-> <<>>,
                        mem |-> EmptyTrace, freed |-> {}],
               calls |-> 0, budget |-> budget, base |-> TrSize(m.tr)]

Start(budget) == StartIn(Fresh, budget)

Init == Start(MaxCalls)

\* ------------------------------------------------------------------ actions
Perms(S) ==
    {p \in [1..Cardinality(S) -> S] : \A i, j \in DOMAIN p : p[i] = p[j] => i = j}

\* the iteration orders cuda_eval can meet in state m
Orders(m) ==
    {[seeds |-> s, buckets |-> b] :
        s \in Perms(m.active), b \in Perms(BucketSizes(m.tr, m.active))}

NoOrder == [seeds |-> <<>>, buckets |-> <<>>]

OrdersIf(c) == IF c THEN Orders(Machine) ELSE {NoOrder}

UserNodes == {i \in DOMAIN trace : i >= R}

\* a failed assert and a failed driver call end the process
Fatal == {"abort", "cudaMemcpy: invalid value"}

\* the process is alive and the caller has calls left to make
Running == last.err \notin Fatal /\ last.calls < last.budget

\* the caller creates at most MaxNodes variables
CanGrow == Running /\ TrSize(trace) < last.base + MaxNodes

\* the instruction templates the callers of the model pass, by operand count
Cmd0 == <<"$", "r", "1">>
Cmd1 == <<"$", "r", "1", ",", "$", "r", "2">>
Cmd2 == <<"$", "r", "1", ",", "$", "r", "2", ",", "$", "r", "3">>
Cmd3 == <<"$", "r", "1", ",", "$", "r", "2", ",", "$", "r", "3", ",", "$", "r", "4">>

Types == {"Float32"}

\* the state a call starts in
Pre == [tr |-> trace, active |-> active, dirty |-> dirty, mem |-> mem,
        freed |-> freed]

\* the state a call leaves, with the record of the call
Commit(result, op, args, ret, dirty_arg) ==
    \E m \in {result} :
       /\ trace' = m.tr
       /\ active' = m.active
       /\ dirty' = m.dirty
       /\ mem' = m.mem
       /\ freed' = m.freed
       /\ last' = [op |-> op, args |-> args, ret |-> IF m.err = "" THEN ret ELSE 0,
                   err |-> m.err, n_eval |-> m.n_eval, n_run |-> m.n_run,
                   sweeps |-> m.sweeps, reg_maps |-> m.reg_maps,
                   dirty_arg |-> dirty_arg,
                   freed_now |-> m.freed_now, pre |-> Pre,
                   calls |-> last.calls + 1, budget |-> last.budget,
                   base |-> last.base]

\* a failed assert: the process is gone
Abort(op, args) ==
    /\ last' = [op |-> op, args |-> args, ret |-> 0, err |-> "abort",
                n_eval |-> 0, n_run |-> 0, sweeps |-> <<>>, reg_maps |-> <<>>,
               dirty_arg |-> FALSE,
                freed_now |-> <<>>, pre |-> Pre, calls |-> last.calls + 1,
                budget |-> last.budget, base |-> last.base]
    /\ UNCHANGED <<trace, active, dirty, mem, freed>>

TraceAppend0 ==
    /\ CanGrow
    /\ \E type \in Types :
          Commit(cuda_trace_append0(Machine, type, Cmd0), "cuda_trace_append",
                 <<>>, TrSize(trace), FALSE)

TraceAppend1 ==
    /\ CanGrow
    /\ \E type \in Types, a1 \in UserNodes :
       \E ord \in OrdersIf(trace[a1].dirty) :
          Commit(cuda_trace_append1(Machine, type, Cmd1, a1, ord), "cuda_trace_append",
                 <<a1>>, TrSize(trace), trace[a1].dirty)

TraceAppend2 ==
    /\ CanGrow
    /\ \E type \in Types, a1, a2 \in UserNodes :
       \E ord \in OrdersIf(trace[a1].dirty \/ trace[a2].dirty) :
          Commit(cuda_trace_append2(Machine, type, Cmd2, a1, a2, ord),
                 "cuda_trace_append", <<a1, a2>>, TrSize(trace),
                 trace[a1].dirty \/ trace[a2].dirty)

TraceAppend3 ==
    /\ CanGrow
    /\ \E type \in Types, a1, a2, a3 \in UserNodes :
       \E ord \in OrdersIf(trace[a1].dirty \/ trace[a2].dirty \/ trace[a3].dirty) :
          Commit(cuda_trace_append3(Machine, type, Cmd3, a1, a2, a3, ord),
                 "cuda_trace_append", <<a1, a2, a3>>, TrSize(trace),
                 trace[a1].dirty \/ trace[a2].dirty \/ trace[a3].dirty)

VarRegister ==
    /\ CanGrow
    /\ \E type \in Types, size \in {1, BigSize}, parent \in {0} \cup UserNodes,
          dealloc \in BOOLEAN :
          Commit(cuda_var_register(Machine, type, size, TrSize(trace),
                                   size * cuda_register_size(type), parent, dealloc),
                 "cuda_var_register", <<parent>>, TrSize(trace), trace[parent].dirty)

\* cuda_var_register with a reserved variable as parent
VarRegisterReserved ==
    /\ CanGrow
    /\ \E type \in Types, parent \in {1, R - 1}, dealloc \in BOOLEAN :
          Commit(cuda_var_register(Machine, type, BigSize, TrSize(trace),
                                   BigSize * cuda_register_size(type), parent,
                                   dealloc),
                 "cuda_var_register", <<parent>>, TrSize(trace), FALSE)

\* cuda_var_register with the index the new variable is about to get as parent
VarRegisterAhead ==
    /\ CanGrow
    /\ \E type \in Types, dealloc \in BOOLEAN :
          Commit(cuda_var_register(Machine, type, 1, TrSize(trace),
                                   cuda_register_size(type), TrSize(trace), dealloc),
                 "cuda_var_register", <<TrSize(trace)>>, TrSize(trace), FALSE)

IncRefExt ==
    /\ Running
    /\ \E i \in UserNodes :
          /\ trace[i].ref_count_ext < MaxRef
          /\ Commit(cuda_inc_ref_ext(Machine, i), "cuda_inc_ref_ext", <<i>>, 0, FALSE)

IncRefInt ==
    /\ Running
    /\ \E i \in UserNodes :
          /\ trace[i].ref_count_int < MaxRef
          /\ Commit(cuda_inc_ref_int(Machine, i), "cuda_inc_ref_int", <<i>>, 0, FALSE)

\* the four reference-count calls on variable 0 and on reserved variables
RefCountReserved ==
    /\ Running
    /\ \E i \in {0, 1, R - 1} :
          \/ Commit(cuda_inc_ref_ext(Machine, i), "cuda_inc_ref_ext", <<i>>, 0, FALSE)
          \/ Commit(cuda_inc_ref_int(Machine, i), "cuda_inc_ref_int", <<i>>, 0, FALSE)
          \/ Commit(cuda_dec_ref_ext(Machine, i), "cuda_dec_ref_ext", <<i>>, 0, FALSE)
          \/ Commit(cuda_dec_ref_int(Machine, i), "cuda_dec_ref_int", <<i>>, 0, FALSE)

DecRefExt ==
    /\ Running
    /\ \E i \in UserNodes :
          Commit(cuda_dec_ref_ext(Machine, i), "cuda_dec_ref_ext", <<i>>, 0, FALSE)

DecRefInt ==
    /\ Running
    /\ \E i \in UserNodes :
          /\ trace[i].ref_count_int >= 0
          /\ Commit(cuda_dec_ref_int(Machine, i), "cuda_dec_ref_int", <<i>>, 0, FALSE)

\* assert(index > ENOKI_CUDA_REG_RESERVED && index < tr.size()) fails for the
\* first variable after cuda_init; a build with NDEBUG goes on
VarMarkSideEffect ==
    /\ Running
    /\ \E i \in UserNodes :
          \/ /\ ~trace[i].side_effect
             /\ Commit(cuda_var_mark_side_effect(Machine, i),
                       "cuda_var_mark_side_effect", <<i>>, 0, FALSE)
          \/ /\ i = R
             /\ Abort("cuda_var_mark_side_effect", <<i>>)

VarMarkDirty ==
    /\ Running
    /\ Len(dirty) < MaxDirty
    /\ \E i \in UserNodes :
          \/ Commit(cuda_var_mark_dirty(Machine, i), "cuda_var_mark_dirty", <<i>>,
                    0, FALSE)
          \/ /\ i = R
             /\ Abort("cuda_var_mark_dirty", <<i>>)

VarSetSize ==
    /\ Running
    /\ \E i \in UserNodes, size \in {1, BigSize} :
          Commit(cuda_var_set_size(Machine, i, size), "cuda_var_set_size", <<i>>, 0,
                 FALSE)

\* the assert of cuda_var_mark_side_effect fails for idx = 0; a build with
\* NDEBUG goes on
TracePrintf ==
    /\ CanGrow
    /\ \E narg \in 0..MaxPrintfArgs :
       \E arg \in [1..narg -> UserNodes] :
       \E ord \in OrdersIf(\E i \in 1..narg : trace[arg[i]].dirty) :
          \/ Commit(cuda_trace_printf(Machine, narg, arg, ord), "cuda_trace_printf",
                    arg, 0, \E i \in 1..narg : trace[arg[i]].dirty)
          \/ /\ cuda_trace_printf(Machine, narg, arg, ord).err = ""
             /\ Abort("cuda_trace_printf", arg)

Eval ==
    /\ Running
    /\ \E ord \in Orders(Machine) :
          Commit(cuda_eval(Machine, ord), "cuda_eval", <<>>, 0, FALSE)

\* cuda_trace_append with variable 0 or a reserved variable as operand
TraceAppendReserved ==
    /\ CanGrow
    /\ \E type \in Types, a1 \in {0, 1, 2, R - 1} :
          Commit(cuda_trace_append1(Machine, type, Cmd1, a1, NoOrder),
                 "cuda_trace_append", <<a1>>, TrSize(trace), FALSE)

\* cuda_init called again: the trace is rebuilt, __dirty stays
Reinit ==
    /\ Running
    /\ Commit(cuda_init(Machine), "cuda_init", <<>>, 0, FALSE)

Shutdown ==
    /\ Running
    /\ Commit(cuda_shutdown(Machine), "cuda_shutdown", <<>>, 0, FALSE)

\* cuda_eval with an entry of __dirty past the end of the trace: the write of
\* tr[idx].dirty lands outside the vector, where it either goes unnoticed (the
\* outcome Eval gives) or ends the process
EvalStale ==
    /\ Running
    /\ \E k \in DOMAIN dirty : dirty[k] \notin DOMAIN trace
    /\ Abort("cuda_eval", <<>>)

\* the templates of a caller that does not keep to the placeholders
Templates ==
    {Cmd0, Cmd1, <<"$">>, <<"$", "r">>, <<"x", "$", "r">>, <<"$", "x", "1">>,
     <<"$", "r", "0">>, <<"$", "r", "5">>, <<"$", "t", "9">>}

\* what the read past the ends of dep can yield: nothing, a variable, no index
OobValues == {0, R, U32Max}

TraceAppendCmd ==
    /\ CanGrow
    /\ \E type \in Types, cmd \in Templates, a1 \in {0} \cup UserNodes :
          Commit(IF a1 = 0 THEN cuda_trace_append0(Machine, type, cmd)
                 ELSE cuda_trace_append1(Machine, type, cmd, a1, NoOrder),
                 "cuda_trace_append", IF a1 = 0 THEN <<>> ELSE <<a1>>,
                 TrSize(trace), FALSE)

\* cuda_eval of templates that make cuda_render_cmd read past the ends of dep
EvalOob ==
    /\ Running
    /\ \E ord \in Orders(Machine), oob \in OobValues :
          Commit(cuda_eval([Machine EXCEPT !.oob = oob], ord), "cuda_eval", <<>>, 0,
                 FALSE)

FetchElement ==
    /\ Running
    /\ \E src \in UserNodes :
       \E ord \in OrdersIf(trace[src].data = Null \/ trace[src].dirty) :
          Commit(cuda_fetch_element(Machine, src, ord), "cuda_fetch_element",
                 <<src>>, trace[src].data, trace[src].dirty)

\* every public operation, in any order, MaxCalls calls long
Next ==
    \/ TraceAppend0
    \/ TraceAppend1
    \/ TraceAppend2
    \/ TraceAppend3
    \/ VarRegister
    \/ IncRefExt
    \/ IncRefInt
    \/ DecRefExt
    \/ DecRefInt
    \/ VarMarkSideEffect
    \/ VarMarkDirty
    \/ VarSetSize
    \/ Eval
    \/ FetchElement

Spec == Init /\ [][Next]_vars

\* a caller that only builds the trace, takes and drops handles, evaluates and
\* reads elements back, MaxHandleCalls calls long
InitHandles == Start(MaxHandleCalls)

NextHandles ==
    \/ TraceAppend0
    \/ TraceAppend1
    \/ TraceAppend2
    \/ IncRefExt
    \/ DecRefExt
    \/ Eval
    \/ FetchElement

SpecHandles == InitHandles /\ [][NextHandles]_vars

\* a caller that builds chains of inputs and computed variables and drops its
\* handles, MaxChainCalls calls long
InitChain == Start(MaxChainCalls)

NextChain ==
    \/ TraceAppend0
    \/ TraceAppend1
    \/ VarRegister
    \/ DecRefExt
    \/ Eval

SpecChain == InitChain /\ [][NextChain]_vars

\* a caller that takes over a chain of k variables, each naming its predecessor
\* in all three slots, and appends to it
MaxTernary == 20

MaxSubtreeCalls == 1

RECURSIVE TernaryChain(_, _)
TernaryChain(m, k) ==
    IF k = 0 THEN m
    ELSE Then(TernaryChain(m, k - 1), LAMBDA c :
              IF k = 1 THEN cuda_trace_append0(c, "Float32", Cmd0)
              ELSE cuda_trace_append3(c, "Float32", Cmd3, TrSize(c.tr) - 1,
                                      TrSize(c.tr) - 1, TrSize(c.tr) - 1, NoOrder))

InitSubtree ==
    \E k \in 1..MaxTernary : StartIn(TernaryChain(Fresh, k), MaxSubtreeCalls)

NextSubtree ==
    \/ TraceAppend0
    \/ TraceAppend1
    \/ TraceAppend2
    \/ TraceAppend3

SpecSubtree == InitSubtree /\ [][NextSubtree]_vars

\* a caller that builds the trace, marks side effects and writes, drops handles
\* and evaluates, MaxBarrierCalls calls long
MaxBarrierCalls == 7

InitBarrier == Start(MaxBarrierCalls)

NextBarrier ==
    \/ TraceAppend0
    \/ TraceAppend1
    \/ DecRefExt
    \/ VarMarkSideEffect
    \/ VarMarkDirty
    \/ Eval

SpecBarrier == InitBarrier /\ [][NextBarrier]_vars

\* a caller that builds the trace, prints, marks side effects and evaluates,
\* MaxCalls calls long
NextPrintf ==
    \/ TraceAppend0
    \/ TraceAppend1
    \/ TracePrintf
    \/ VarMarkSideEffect
    \/ Eval

SpecPrintf == Init /\ [][NextPrintf]_vars

\* a caller that builds the trace, resizes and marks variables, drops handles
\* and evaluates, MaxShapeCalls calls long
MaxShapeCalls == 7

InitShape == Start(MaxShapeCalls)

NextShape ==
    \/ TraceAppend0
    \/ TraceAppend1
    \/ DecRefExt
    \/ VarMarkSideEffect
    \/ VarSetSize
    \/ Eval

SpecShape == InitShape /\ [][NextShape]_vars

\* a caller that appends templates of its own and evaluates, MaxTemplateCalls
\* calls long
MaxTemplateCalls == 3

InitTemplates == Start(MaxTemplateCalls)

NextTemplates ==
    \/ TraceAppendCmd
    \/ EvalOob

SpecTemplates == InitTemplates /\ [][NextTemplates]_vars

\* a caller that registers buffers with parents of its choice, builds on them,
\* drops handles and evaluates, MaxCalls calls long
NextParents ==
    \/ TraceAppend0
    \/ TraceAppend1
    \/ VarRegister
    \/ VarRegisterReserved
    \/ VarRegisterAhead
    \/ DecRefExt
    \/ Eval

SpecParents == Init /\ [][NextParents]_vars

\* a caller that also passes reserved variables to the reference-count calls,
\* MaxCalls calls long
NextReserved ==
    \/ TraceAppend0
    \/ TraceAppend1
    \/ VarRegisterReserved
    \/ RefCountReserved
    \/ DecRefExt
    \/ Eval

SpecReserved == Init /\ [][NextReserved]_vars

\* a caller that has registered one input of BigSize elements and then appends,
\* takes and drops handles and evaluates, MaxBucketCalls calls long
\* a caller that takes over a variable and one computed from it, and combines
\* variables of different subtree sizes before it evaluates
MaxSortCalls == 3

InitSort ==
    StartIn(cuda_trace_append1(cuda_trace_append0(Fresh, "Float32", Cmd0), "Float32",
                               Cmd1, TrSize(Fresh.tr), NoOrder),
            MaxSortCalls)

NextSort ==
    \/ TraceAppend1
    \/ TraceAppend2
    \/ TraceAppend3
    \/ Eval

SpecSort == InitSort /\ [][NextSort]_vars

\* a caller that takes over a variable and one computed from it, changes sizes
\* and evaluates again after an evaluation that failed
MaxRetryCalls == 5

InitRetry ==
    StartIn(cuda_trace_append1(cuda_trace_append0(Fresh, "Float32", Cmd0), "Float32",
                               Cmd1, TrSize(Fresh.tr), NoOrder),
            MaxRetryCalls)

NextRetry ==
    \/ TraceAppend1
    \/ VarSetSize
    \/ Eval

SpecRetry == InitRetry /\ [][NextRetry]_vars

\* a caller that takes over a variable and one computed from it, changes sizes,
\* evaluates and drops its handles
MaxAbortCalls == 5

InitAbort ==
    StartIn(cuda_trace_append1(cuda_trace_append0(Fresh, "Float32", Cmd0), "Float32",
                               Cmd1, TrSize(Fresh.tr), NoOrder),
            MaxAbortCalls)

NextAbort ==
    \/ TraceAppend1
    \/ VarSetSize
    \/ DecRefExt
    \/ Eval

SpecAbort == InitAbort /\ [][NextAbort]_vars

\* a caller that keeps to cuda_trace_append, cuda_var_register, the external
\* reference count, the marks and cuda_eval
NextCounts ==
    \/ TraceAppend0
    \/ TraceAppend1
    \/ TraceAppend2
    \/ VarRegister
    \/ VarRegisterAhead
    \/ IncRefExt
    \/ DecRefExt
    \/ VarMarkSideEffect
    \/ VarMarkDirty
    \/ Eval

SpecCounts == Init /\ [][NextCounts]_vars

\* a caller that marks writes, shuts the backend down and starts it again
MaxRestartCalls == 5

InitRestart == Start(MaxRestartCalls)

NextRestart ==
    \/ TraceAppend0
    \/ TraceAppend1
    \/ VarMarkDirty
    \/ Eval
    \/ EvalStale
    \/ Shutdown
    \/ Reinit

SpecRestart == InitRestart /\ [][NextRestart]_vars

\* a caller that has computed one variable from another and dropped the handle
\* of the operand, and that builds further variables on them, drops handles
\* and evaluates
MaxHeavyCalls == 5

InitHeavy ==
    StartIn(cuda_dec_ref_ext(
                cuda_trace_append1(cuda_trace_append0(Fresh, "Float32", Cmd0),
                                   "Float32", Cmd1, TrSize(Fresh.tr), NoOrder),
                TrSize(Fresh.tr)),
            MaxHeavyCalls)

NextHeavy ==
    \/ TraceAppend0
    \/ TraceAppend2
    \/ DecRefExt
    \/ Eval

SpecHeavy == InitHeavy /\ [][NextHeavy]_vars

\* a caller that computes variables from the reserved registers
NextRegisters ==
    \/ TraceAppend0
    \/ TraceAppend1
    \/ TraceAppendReserved
    \/ DecRefExt
    \/ Eval

SpecRegisters == Init /\ [][NextRegisters]_vars

MaxBucketCalls == 5

InputOfBigSize ==
    cuda_var_register(Fresh, "Float32", BigSize, TrSize(Fresh.tr),
                      BigSize * cuda_register_size("Float32"), 0, FALSE)

InitBuckets == StartIn(InputOfBigSize, MaxBucketCalls)

NextBuckets ==
    \/ TraceAppend0
    \/ TraceAppend1
    \/ TraceAppend2
    \/ IncRefExt
    \/ DecRefExt
    \/ Eval

SpecBuckets == InitBuckets /\ [][NextBuckets]_vars

\* a caller that takes over an input of BigSize, combines it with variables of
\* size 1, takes and drops handles, marks side effects and evaluates
MaxStoreCalls == 5

InitStore == StartIn(InputOfBigSize, MaxStoreCalls)

NextStore ==
    \/ TraceAppend0
    \/ TraceAppend1
    \/ TraceAppend2
    \/ IncRefExt
    \/ DecRefExt
    \/ VarMarkSideEffect
    \/ Eval

SpecStore == InitStore /\ [][NextStore]_vars

\* ------------------------------------------------------- properties, C1..C10
ZeroDep == <<0, 0, 0>>

\* the variable a call named as its first argument
Arg1 == last.args[1]

Returned == last.err = ""

\* the variables the schedules of the call's cuda_eval hold
Scheduled == UNION {Range(last.sweeps[k].schedule) : k \in DOMAIN last.sweeps}

\* C1: cuda_trace_append with operands, one of which is dirty when the call is
\* made, runs cuda_eval once before it inserts the new variable: no schedule
\* of that evaluation holds the new variable, and no operand of the new
\* variable is dirty once it is in the trace.
C1_AppendEvaluatesDirtyOperands ==
    (last.op = "cuda_trace_append" /\ last.args # <<>> /\ Returned) =>
        /\ last.dirty_arg = (\E k \in DOMAIN last.args : last.pre.tr[last.args[k]].dirty)
        /\ last.n_eval = (IF last.dirty_arg THEN 1 ELSE 0)
        /\ last.ret = TrSize(last.pre.tr) /\ last.ret \in DOMAIN trace
        /\ last.ret \notin Scheduled
        /\ \A k \in DOMAIN last.args :
              /\ trace[last.ret].dep[k] = last.args[k]
              /\ ~trace[last.args[k]].dirty

C1_Witness ==
    /\ last.op = "cuda_trace_append" /\ Returned
    /\ \E k \in DOMAIN last.args : last.pre.tr[last.args[k]].dirty
    /\ last.n_run >= 1
    /\ last.ret \in active

\* C2: at every moment a variable has been released (cuda_var_free has run on
\* it) exactly if its external and internal reference counts are both zero,
\* and neither count is ever below zero.
C2_ReleasedIffBothCountsZero ==
    \A n \in UserNodes :
        /\ (n \in freed) <=> is_collected(trace[n])
        /\ trace[n].ref_count_ext >= 0
        /\ trace[n].ref_count_int >= 0

\* a cuda_eval ran to its end in the last call
Evaluated ==
    /\ Returned
    /\ last.op = "cuda_eval" \/ (last.op = "cuda_fetch_element" /\ last.n_eval = 1)

\* C3: when cuda_eval has returned, the active set is empty, the dirty queue is
\* empty and no variable has its dirty flag set.
C3_EvalLeavesNothingPending ==
    Evaluated =>
        /\ active = {}
        /\ dirty = <<>>
        /\ \A n \in DOMAIN trace : ~trace[n].dirty

C3_Witness ==
    /\ Evaluated
    /\ last.pre.active # {}
    /\ \E n \in UserNodes : last.pre.tr[n].dirty /\ n \in Scheduled
    /\ last.n_run >= 1

\* a computed variable, as opposed to a registered input
Computed(v) == v.cmd # <<>>

\* C4 as the specification states it: when cuda_eval has returned, every
\* computed variable of every schedule has a device buffer and no dependency.
C4_ScheduledNodesHaveBuffers ==
    Evaluated =>
        \A n \in Scheduled :
            Computed(trace[n]) => trace[n].data # Null /\ trace[n].dep = ZeroDep

\* C4: when cuda_eval has returned, every computed variable of a schedule that
\* still has an external reference and whose size is the size of that
\* schedule's bucket has a device buffer and no dependency.
C4_ReferencedNodesHaveBuffers ==
    Evaluated =>
        \A k \in DOMAIN last.sweeps :
        \A n \in Range(last.sweeps[k].schedule) :
            (/\ Computed(trace[n])
             /\ trace[n].ref_count_ext # 0
             /\ trace[n].size = last.sweeps[k].size)
            => trace[n].data # Null /\ trace[n].dep = ZeroDep

C4_Witness ==
    /\ Evaluated
    /\ \E k \in DOMAIN last.sweeps :
       \E n \in Range(last.sweeps[k].schedule) :
          /\ Computed(trace[n])
          /\ trace[n].ref_count_ext # 0
          /\ trace[n].size = last.sweeps[k].size
          /\ last.pre.tr[n].data = Null
          /\ last.pre.tr[n].dep # ZeroDep
          /\ trace[n].data # Null

\* C5: cuda_dec_ref_ext that brings the external count of a variable marked by
\* cuda_var_mark_side_effect to zero leaves the variable in the active set and
\* does not release it.
C5_SideEffectSurvivesRelease ==
    (/\ last.op = "cuda_dec_ref_ext" /\ Returned
     /\ last.pre.tr[Arg1].side_effect
     /\ Arg1 \in last.pre.active
     /\ last.pre.tr[Arg1].ref_count_ext = 1)
    => Arg1 \in active /\ Arg1 \notin Range(last.freed_now)

\* the sequences of distinct user variables of the call's first state
Chains ==
    UNION {Perms(S) : S \in {T \in SUBSET (DOMAIN last.pre.tr) :
                                Cardinality(T) >= 2 /\ \A n \in T : n >= R}}

\* the dependency slots of variable n that name variable d
SlotsNaming(tr, n, d) == {j \in 1..3 : tr[n].dep[j] = d}

\* c is a chain in tr: every variable is the only consumer of the one before
\* it, none has a side effect, and the last alone is held by the caller
IsChain(tr, c) ==
    /\ \A k \in DOMAIN c :
          /\ ~tr[c[k]].side_effect
          /\ tr[c[k]].ref_count_ext = (IF k = Len(c) THEN 1 ELSE 0)
          /\ tr[c[k]].ref_count_int = (IF k = Len(c) THEN 0 ELSE 1)
    /\ \A k \in 1..(Len(c) - 1) :
          /\ Cardinality(SlotsNaming(tr, c[k + 1], c[k])) = 1
          /\ \A n \in DOMAIN tr : n # c[k + 1] => SlotsNaming(tr, n, c[k]) = {}

\* how often variable n occurs in the sequence q
Count(q, n) == Cardinality({i \in DOMAIN q : q[i] = n})

\* the call released variable n, which owned a live buffer, and freed it once
FreedOnce(n) ==
    (last.pre.tr[n].free /\ last.pre.tr[n].data # Null) =>
        mem[last.pre.tr[n].data].frees = last.pre.mem[last.pre.tr[n].data].frees + 1

\* C6: cuda_dec_ref_ext on the last variable of a chain releases every variable
\* of the chain exactly once, frees every buffer the chain owns exactly once,
\* and leaves every reference count of the chain at zero.
C6_CascadeFreesChainOnce ==
    (last.op = "cuda_dec_ref_ext" /\ Returned) =>
        \A c \in Chains :
            (IsChain(last.pre.tr, c) /\ c[Len(c)] = Arg1) =>
                \A k \in DOMAIN c :
                    /\ Count(last.freed_now, c[k]) = 1
                    /\ is_collected(trace[c[k]])
                    /\ trace[c[k]].data = Null /\ trace[c[k]].dep = ZeroDep
                    /\ FreedOnce(c[k])
                    /\ \A b \in DOMAIN mem : mem[b].frees <= mem[b].allocs

C6_Witness ==
    /\ last.op = "cuda_dec_ref_ext" /\ Returned
    /\ \E c \in Chains :
          /\ Len(c) = 3
          /\ IsChain(last.pre.tr, c) /\ c[3] = Arg1
          /\ last.pre.tr[c[1]].free /\ last.pre.tr[c[1]].data # Null
          /\ mem[c[1]].frees = 1
          /\ last.freed_now = <<c[1], c[2], c[3]>>

\* C7: cuda_dec_ref_ext and cuda_dec_ref_int on a variable whose count is zero
\* fail, and the count is zero afterwards.
C7_DecrementAtZeroFails ==
    /\ (last.op = "cuda_dec_ref_ext" /\ last.pre.tr[Arg1].ref_count_ext = 0) =>
           ~Returned /\ trace[Arg1].ref_count_ext = 0
    /\ (last.op = "cuda_dec_ref_int" /\ last.pre.tr[Arg1].ref_count_int = 0) =>
           ~Returned /\ trace[Arg1].ref_count_int = 0

\* the call put a new variable into the trace
Inserted == Returned /\ TrSize(trace) = TrSize(last.pre.tr) + 1

\* C8: neither cuda_trace_append nor cuda_var_register inserts a variable with
\* a dependency slot that names a variable that is dirty in the state the call
\* leaves.
C8_NoDirtyDependencyAtInsertion ==
    (last.op \in {"cuda_trace_append", "cuda_var_register"} /\ Inserted) =>
        \A j \in 1..3 :
            trace[last.ret].dep[j] >= R => ~trace[trace[last.ret].dep[j]].dirty

\* C9: no schedule cuda_eval builds holds a variable twice.
C9_ScheduleHasNoDuplicates ==
    \A k \in DOMAIN last.sweeps :
    \A i, j \in DOMAIN last.sweeps[k].schedule :
        last.sweeps[k].schedule[i] = last.sweeps[k].schedule[j] => i = j

\* a, b = f(a), c = g(a, b) with b and c active: the schedule is a, b, c
C9_Witness ==
    /\ last.op = "cuda_eval" /\ Returned
    /\ \E k \in DOMAIN last.sweeps :
       \E a, b, c \in UserNodes :
          /\ last.sweeps[k].schedule = <<a, b, c>>
          /\ last.pre.tr[a].dep = ZeroDep
          /\ last.pre.tr[b].dep = <<a, 0, 0>>
          /\ last.pre.tr[c].dep = <<a, b, 0>>
          /\ {b, c} \subseteq last.pre.active

\* the call got as far as the copy from the device
ReachedCopy == Returned \/ last.err = "cudaMemcpy: invalid value"

\* C10: cuda_fetch_element on a computed variable that was never released and
\* on which the caller holds an external reference copies from a buffer that
\* is there, and the variable is not dirty.
C10_FetchFindsBuffer ==
    (/\ last.op = "cuda_fetch_element" /\ ReachedCopy
     /\ Computed(last.pre.tr[Arg1])
     /\ Arg1 \notin last.pre.freed
     /\ last.pre.tr[Arg1].ref_count_ext >= 1)
    => ~trace[Arg1].dirty /\ trace[Arg1].data # Null
\* ------------------------------------------------------ properties, C11..C20
\* the cuda_eval of the call rendered the command of side-effect variable s
Emitted(s) ==
    /\ Evaluated
    /\ s \in Scheduled
    /\ last.pre.tr[s].side_effect
    /\ Computed(last.pre.tr[s])
    /\ last.pre.tr[s].data = Null

\* C11: a cuda_eval that emits a side-effect variable drops an external
\* reference of it; if the variable held the one reference cuda_trace_append
\* gave it, it ends with external count 0 and no buffer, and if its internal
\* count is 0 as well it has been released.
C11_EmissionDropsSideEffectReference ==
    \A s \in UserNodes :
        Emitted(s) =>
            /\ trace[s].ref_count_ext < last.pre.tr[s].ref_count_ext
            /\ last.pre.tr[s].ref_count_ext = 1 =>
                  /\ trace[s].ref_count_ext = 0
                  /\ trace[s].data = Null
                  /\ s \notin active
                  /\ trace[s].ref_count_int = 0 =>
                        /\ s \in Range(last.freed_now)
                        /\ trace[s].dep = ZeroDep

C11_Witness ==
    \E s \in UserNodes :
        /\ Emitted(s)
        /\ last.pre.tr[s].ref_count_ext = 1
        /\ last.pre.tr[s].dep # ZeroDep
        /\ s \in Range(last.freed_now)
        /\ last.n_run >= 1
\* C12: the variable cuda_trace_append inserts has the largest size of its
\* operands (1 without operands), also when the call ran cuda_eval first.
C12_AppendSizeIsMaxOfOperands ==
    (last.op = "cuda_trace_append" /\ Inserted) =>
        IF last.args = <<>> THEN trace[last.ret].size = 1
        ELSE /\ \A k \in DOMAIN last.args :
                   trace[last.args[k]].size <= trace[last.ret].size
             /\ \E k \in DOMAIN last.args :
                   trace[last.args[k]].size = trace[last.ret].size

C12_Witness ==
    /\ last.op = "cuda_trace_append" /\ Inserted
    /\ Len(last.args) = 2
    /\ trace[last.args[1]].size < trace[last.args[2]].size
    /\ last.n_eval = 1
    /\ trace[last.ret].size = BigSize
\* 1 plus the subtree sizes of the operands from slot i on fits 32 bits, acc
\* being the sum so far
RECURSIVE SumFits(_, _)
SumFits(i, acc) ==
    \/ i > Len(last.args)
    \/ /\ ~U32Carry(acc, trace[last.args[i]].subtree_size)
       /\ SumFits(i + 1, U32Add(acc, trace[last.args[i]].subtree_size))

RECURSIVE SumFrom(_, _)
SumFrom(i, acc) ==
    IF i > Len(last.args) THEN acc
    ELSE SumFrom(i + 1, U32Add(acc, trace[last.args[i]].subtree_size))

\* C13: after every append the new variable's subtree_size is 1 plus the sum of
\* its operands' subtree_size, as an equation of integers: the sum does not wrap
\* around the 32 bits of the field
C13_SubtreeSizeIsExactSum ==
    (last.op = "cuda_trace_append" /\ Inserted) =>
        /\ SumFits(1, 1)
        /\ trace[last.ret].subtree_size = SumFrom(1, 1)

\* the field holds the sum modulo 2^32
C13_SubtreeSizeIsSumModulo ==
    (last.op = "cuda_trace_append" /\ Inserted) =>
        trace[last.ret].subtree_size = SumFrom(1, 1)
\* C14: in every kernel cuda_eval assembles, the i-th variable of the schedule
\* (i counted from 0) gets register R + i, so the register map sends the
\* schedule one-to-one onto R .. R + |schedule| - 1.
C14_RegistersAreSequential ==
    \A k \in DOMAIN last.reg_maps :
        /\ \A i \in DOMAIN last.sweeps[k].schedule :
              last.reg_maps[k][last.sweeps[k].schedule[i]] = R + i - 1
        /\ {last.reg_maps[k][s] : s \in Range(last.sweeps[k].schedule)}
              = R..(R + Len(last.sweeps[k].schedule) - 1)
        /\ \A s, t \in Range(last.sweeps[k].schedule) :
              s # t => last.reg_maps[k][s] # last.reg_maps[k][t]

C14_Witness ==
    /\ Evaluated
    /\ Len(last.reg_maps) = 2
    /\ \E k \in DOMAIN last.reg_maps : Len(last.sweeps[k].schedule) = 2

\* C15: every variable that holds a buffer cuda_eval allocated has, in every
\* later state, a buffer of size * cuda_register_size(type) bytes.
C15_BufferBytesMatchSize ==
    \A i \in UserNodes :
        (Computed(trace[i]) /\ trace[i].data # Null) =>
            mem[trace[i].data].bytes = trace[i].size * cuda_register_size(trace[i].type)

\* C16: a cuda_dec_ref_ext that brings the external count of a variable to zero
\* takes the variable out of the active set, and in every reachable state every
\* member of the active set has an external count of at least one.
C16_ActiveNodesAreReferenced ==
    /\ \A i \in active : i \in DOMAIN trace /\ trace[i].ref_count_ext # 0
    /\ (last.op = "cuda_dec_ref_ext" /\ Returned /\ trace[Arg1].ref_count_ext = 0)
          => Arg1 \notin active

C16_Witness ==
    /\ last.op = "cuda_dec_ref_ext"
    /\ Returned
    /\ Arg1 \in last.pre.active
    /\ last.pre.tr[Arg1].ref_count_ext = 1
    /\ trace[Arg1].ref_count_int = 1
    /\ Arg1 \notin active
    /\ active # {}
\* before the call, w is a computed side-effect variable that reads A, holds its
\* first external reference, and A is marked dirty
PendingWrite(w, A) ==
    /\ Computed(last.pre.tr[w])
    /\ last.pre.tr[w].side_effect
    /\ last.pre.tr[w].ref_count_ext = 1
    /\ A \in Range(last.pre.tr[w].dep)
    /\ last.pre.tr[A].dirty

\* C17: an append that consumes A while a side-effect variable w that writes to
\* A is pending and A is marked dirty runs cuda_eval first; w is emitted in one
\* of its kernels, and the consumer is created afterwards and is in none of the
\* schedules.
C17_BarrierEmitsPendingWrite ==
    \A w \in DOMAIN last.pre.tr, A \in Range(last.args) :
        (last.op = "cuda_trace_append" /\ A >= R /\ w >= R /\ PendingWrite(w, A)) =>
            /\ Inserted
            /\ last.n_eval = 1
            /\ last.n_run >= 1
            /\ w \in Scheduled
            /\ last.pre.tr[w].data = Null
            /\ trace[w].ref_count_ext = 0
            /\ last.ret \notin Scheduled
            /\ last.ret \notin DOMAIN last.pre.tr
\* an append that returns has emitted the pending write
C17_ReturningBarrierEmitsPendingWrite ==
    \A w \in DOMAIN last.pre.tr, A \in Range(last.args) :
        (last.op = "cuda_trace_append" /\ A >= R /\ w >= R /\ PendingWrite(w, A)
            /\ Returned) =>
            /\ Inserted
            /\ last.n_eval = 1
            /\ last.n_run >= 1
            /\ w \in Scheduled
            /\ trace[w].ref_count_ext = 0
            /\ last.ret \notin Scheduled

\* C18: in every schedule of a cuda_eval, two side-effect variables the kernel
\* emits stand in the order of their creation (increasing index), whatever the
\* iteration order of __active is.
C18_SideEffectsInIssueOrder ==
    \A k \in DOMAIN last.sweeps :
    \A i, j \in DOMAIN last.sweeps[k].schedule :
        (/\ last.n_eval >= 1
         /\ i < j
         /\ Emitted(last.sweeps[k].schedule[i])
         /\ Emitted(last.sweeps[k].schedule[j]))
            => last.sweeps[k].schedule[i] < last.sweeps[k].schedule[j]
\* C19: when cuda_trace_printf returns, the variable it appended has its
\* side-effect flag set and no other variable's flag has changed.
C19_PrintfMarksItsNode ==
    (last.op = "cuda_trace_printf" /\ Returned) =>
        /\ Inserted
        /\ trace[TrSize(trace) - 1].side_effect
        /\ \A i \in DOMAIN last.pre.tr :
              trace[i].side_effect = last.pre.tr[i].side_effect
\* C20: for every variable i from R up to the end of the trace, the first one
\* created after cuda_init included, cuda_var_mark_dirty(i) is accepted, sets
\* the dirty flag of i and appends i to the dirty queue, and
\* cuda_var_mark_side_effect(i) is accepted and sets the side-effect flag of i.
C20_MarksAcceptEveryUserNode ==
    /\ (last.op = "cuda_var_mark_dirty" /\ Arg1 \in UserNodes) =>
          /\ Returned
          /\ trace[Arg1].dirty
          /\ dirty = Append(last.pre.dirty, Arg1)
    /\ (last.op = "cuda_var_mark_side_effect" /\ Arg1 \in UserNodes) =>
          /\ Returned
          /\ trace[Arg1].side_effect

\* every variable but the first is accepted
C20_MarksAcceptLaterUserNodes ==
    /\ (last.op = "cuda_var_mark_dirty" /\ Arg1 > R) =>
          /\ Returned
          /\ trace[Arg1].dirty
          /\ dirty = Append(last.pre.dirty, Arg1)
    /\ (last.op = "cuda_var_mark_side_effect" /\ Arg1 > R) =>
          /\ Returned
          /\ trace[Arg1].side_effect
\* ------------------------------------------------------ properties, C21..C30
\* the variables of the k-th schedule whose size is neither 1 nor the bucket's
Misfits(k) ==
    {s \in Range(last.sweeps[k].schedule) :
        last.pre.tr[s].size \notin {1, last.sweeps[k].size}}

ShapeError == "CUDABackend: encountered arrays of incompatible size!"

RECURSIVE WellFormed(_, _)

\* from character i on, every $ of cmd starts one of $t, $b, $r with a digit
\* from 1 to 4
WellFormed(cmd, i) ==
    \/ i > Len(cmd)
    \/ /\ cmd[i] # "$"
       /\ WellFormed(cmd, i + 1)
    \/ /\ cmd[i] = "$"
       /\ i + 2 <= Len(cmd)
       /\ cmd[i + 1] \in {"t", "b", "r"}
       /\ cmd[i + 2] \in {"1", "2", "3", "4"}
       /\ WellFormed(cmd, i + 3)

RenderErrors ==
    {"cuda_render_cmd: invalid '$' template!", "cuda_render_cmd: out of bounds!"}

\* C22: a cuda_eval that expands a template with a $ that does not start one of
\* $t<d>, $b<d>, $r<d> with d from 1 to 4 fails with an error of cuda_render_cmd.
C22_MalformedTemplateIsFatal ==
    \A s \in Scheduled :
        (last.op = "cuda_eval" /\ ~WellFormed(last.pre.tr[s].cmd, 1)) =>
            last.err \in RenderErrors

\* a $ followed by another letter is refused
C22_UnknownLetterIsFatal ==
    \A s \in Scheduled :
        (last.op = "cuda_eval" /\ last.pre.tr[s].cmd = <<"$", "x", "1">>) =>
            last.err # ""

Creates == last.op \in {"cuda_trace_append", "cuda_var_register"} /\ Returned

\* the dependency slots a creating call with these arguments sets
DepOf(args) == [k \in 1..3 |-> IF k <= Len(args) THEN args[k] ELSE 0]

\* C23: cuda_trace_append and cuda_var_register return the number of entries
\* the trace had before the call, R for the first variable after cuda_init; the
\* trace never shrinks and no entry changes its place, so the indices grow with
\* every creation and none is used again, whatever was released or evaluated.
C23_IndicesFollowIssueOrder ==
    /\ TrSize(trace) >= TrSize(last.pre.tr)
    /\ TrSize(trace) >= R
    /\ \A i \in DOMAIN last.pre.tr :
          /\ trace[i].type = last.pre.tr[i].type
          /\ trace[i].cmd = last.pre.tr[i].cmd
    /\ Creates =>
          /\ last.ret = TrSize(last.pre.tr)
          /\ DOMAIN trace = 0..last.ret
          /\ trace[last.ret].dep = DepOf(last.args)
          /\ trace[last.ret].ref_count_ext = 1

C23_Witness ==
    /\ Creates
    /\ last.ret = R + 2
    /\ freed # {}
    /\ \E i \in DOMAIN last.pre.tr :
          i >= R /\ Computed(last.pre.tr[i]) /\ last.pre.tr[i].data # Null

\* C24: in every reachable state every dependency slot that is not 0 holds an
\* index below the index of its variable, whether cuda_trace_append or
\* cuda_var_register created it, so the dependencies form no cycle.
C24_DependenciesPointBack ==
    \A i \in UserNodes, k \in 1..3 :
        trace[i].dep[k] # 0 => trace[i].dep[k] < i

\* the reference counts of the variables the call found, but for variable p
SameCountsBut(p) ==
    \A i \in DOMAIN last.pre.tr :
        i # p => /\ trace[i].ref_count_ext = last.pre.tr[i].ref_count_ext
                 /\ trace[i].ref_count_int = last.pre.tr[i].ref_count_int

RefCountOps ==
    {"cuda_inc_ref_ext", "cuda_inc_ref_int", "cuda_dec_ref_ext", "cuda_dec_ref_int"}

\* C26: each of the four reference-count calls with an index below R returns
\* without an error and leaves the trace, the active set, the dirty queue and
\* the device memory as they were.
C26_ReservedIndicesAreIgnored ==
    (last.op \in RefCountOps /\ Arg1 < R) =>
        /\ Returned
        /\ trace = last.pre.tr
        /\ active = last.pre.active
        /\ dirty = last.pre.dirty
        /\ mem = last.pre.mem
        /\ freed = last.pre.freed

C26_Witness ==
    /\ last.op = "cuda_dec_ref_int"
    /\ Arg1 = R - 1
    /\ Returned
    /\ active # {}
    /\ \E i \in UserNodes : trace[i].dep[1] = R - 1 /\ trace[i].ref_count_int = 1

Expired == "CUDABackend: found invalid/expired variable in schedule!"

\* C27: a cuda_eval of a trace built with cuda_trace_append, cuda_var_register,
\* cuda_inc_ref_ext and cuda_dec_ref_ext, in which no variable was released
\* before, meets no collected variable in a schedule, whatever the order of the
\* buckets: it does not fail with the error of an invalid or expired variable.
C27_NoScheduledVariableExpires ==
    (last.n_eval >= 1 /\ last.pre.freed = {}) => last.err # Expired

\* the order in which sweep_recursive visits the operands of variable i
VisitOrder(tr, i) == sort_deps(tr, tr[i].dep)

Descending(tr, d) ==
    /\ ~U32Less(prio(tr, d, 1), prio(tr, d, 2))
    /\ ~U32Less(prio(tr, d, 2), prio(tr, d, 3))

\* C28: in a cuda_eval, the scheduler visits the three operands of every
\* variable it schedules in the order of non-increasing subtree_size, a slot
\* below R counting as size 0.
C28_OperandsVisitedLargestFirst ==
    (last.op = "cuda_eval" /\ last.n_eval >= 1) =>
        \A i \in Scheduled : Descending(last.pre.tr, VisitOrder(last.pre.tr, i))

\* schedule s names each operand of its variable at position j before j
OperandsBefore(tr, s, j) ==
    \A d \in 1..3 :
       tr[s[j]].dep[d] >= R => \E e \in 1..(j - 1) : s[e] = tr[s[j]].dep[d]

\* C29: every schedule that cuda_eval builds is topologically sorted: each
\* operand of index R or more of a scheduled variable stands in the same
\* schedule at an earlier position.
C29_SchedulesAreTopological ==
    (last.op = "cuda_eval" /\ last.n_eval >= 1) =>
        \A k \in DOMAIN last.sweeps :
           \A j \in DOMAIN last.sweeps[k].schedule :
              OperandsBefore(last.pre.tr, last.sweeps[k].schedule, j)

\* the variables of the schedules that hold a buffer when the call is over
Materialized ==
    {n \in Scheduled \cap DOMAIN trace : Computed(trace[n]) /\ trace[n].data # Null}

\* the dependency slots that named variable p before the call and that the
\* call released: those of the materialized and those of the freed variables
ReleasedSlots(p) ==
    {s \in (Materialized \cup Range(last.freed_now)) \X (1..3) :
        last.pre.tr[s[1]].dep[s[2]] = p}

\* C30: when cuda_eval has returned, no computed variable with a device buffer
\* has a dependency left.
C30_NoMaterializedNodeKeepsEdges ==
    Evaluated =>
        \A n \in UserNodes :
           (Computed(trace[n]) /\ trace[n].data # Null) => trace[n].dep = ZeroDep

\* C30: when cuda_eval has returned, every scheduled computed variable with a
\* device buffer has its three dependency slots set to 0, and each variable
\* that is still alive has lost one internal reference for each slot that
\* named it.
C30_EdgesCollapseOnce ==
    (Evaluated /\ last.op = "cuda_eval") =>
        /\ \A n \in Materialized : trace[n].dep = ZeroDep
        /\ \A p \in UserNodes \ Range(last.freed_now) :
              trace[p].ref_count_int + Cardinality(ReleasedSlots(p))
                  = last.pre.tr[p].ref_count_int
\* ------------------------------------------------------ properties, C31..C40
\* the call gave variable n a new buffer
NewBuffer(n) ==
    /\ last.pre.tr[n].data = Null
    /\ trace[n].data # Null
    /\ mem[n].allocs = last.pre.mem[n].allocs + 1

\* a bucket of the call holds variable n, has its size, and n is referenced
\* when its side effect is released
StoredIn(n) ==
    /\ trace[n].ref_count_ext # 0
    /\ \E k \in DOMAIN last.sweeps :
          /\ n \in Range(last.sweeps[k].schedule)
          /\ trace[n].size = last.sweeps[k].size

\* C31: in a cuda_eval that returns, a scheduled computed variable without a
\* buffer gets a new one exactly if it is still referenced externally after the
\* release of its side effect and its size is that of a bucket that holds it;
\* every other one keeps its null pointer, and a variable that has a buffer
\* keeps it without a new allocation.
C31_BufferIffReferencedAndFits ==
    (last.op = "cuda_eval" /\ Returned) =>
        \A n \in Scheduled :
           /\ (Computed(last.pre.tr[n]) /\ last.pre.tr[n].data = Null) =>
                 /\ StoredIn(n) <=> NewBuffer(n)
                 /\ ~StoredIn(n) =>
                       trace[n].data = Null /\ mem[n].allocs = last.pre.mem[n].allocs
           /\ last.pre.tr[n].data # Null =>
                 /\ mem[n].allocs = last.pre.mem[n].allocs
                 /\ trace[n].data \in {Null, last.pre.tr[n].data}

C31_Witness ==
    /\ last.op = "cuda_eval"
    /\ Returned
    /\ \E n \in Scheduled : Computed(trace[n]) /\ NewBuffer(n) /\ StoredIn(n)
    /\ \E n \in Scheduled :
          /\ Computed(trace[n])
          /\ trace[n].ref_count_ext # 0
          /\ trace[n].size = 1
          /\ trace[n].data = Null
    /\ \E n \in Scheduled : last.pre.tr[n].data # Null

NegativeExt == "cuda_dec_ref_ext(): Negative reference count!"

\* C32: a cuda_eval releases the external reference of a side-effect variable
\* at most once, also when the variable has size 1 and stands in the schedules
\* of several buckets, and does not fail with the error of a negative
\* reference count.
C32_SideEffectReleasedOnce ==
    last.op = "cuda_eval" =>
        /\ last.err # NegativeExt
        /\ \A n \in Scheduled :
              last.pre.tr[n].side_effect =>
                 trace[n].ref_count_ext + 1 >= last.pre.tr[n].ref_count_ext

\* the kernel of a bucket that holds variable n and has its size was launched
\* in the call: the buckets are worked on in the order of last.sweeps, and
\* last.n_run of them got as far as cuda_jit_run
StoreLaunched(n) ==
    \E k \in DOMAIN last.sweeps :
       /\ k <= last.n_run
       /\ n \in Range(last.sweeps[k].schedule)
       /\ trace[n].size = last.sweeps[k].size

\* C33: whatever the outcome of a call, a computed variable that has a device
\* buffer it did not have before the call got it in a bucket whose kernel,
\* with the store into the buffer, was launched.
C33_BufferImpliesLaunchedStore ==
    \A n \in UserNodes \cap DOMAIN last.pre.tr :
       (/\ Computed(trace[n])
        /\ last.pre.tr[n].data = Null
        /\ trace[n].data # Null)
       => StoreLaunched(n)

\* C34: also after a cuda_eval that failed part-way, the buffer allocated for
\* a computed variable is held by that variable alone, as a buffer it owns,
\* for as long as it is allocated; it is released exactly once, by the call
\* that brings both reference counts of the variable to zero.
C34_BuffersAreOwnedAndFreedOnce ==
    \A n \in UserNodes :
       Computed(trace[n]) =>
          /\ trace[n].data \in {Null, n}
          /\ mem[n].allocs = mem[n].frees + (IF trace[n].data = Null THEN 0 ELSE 1)
          /\ trace[n].data # Null => trace[n].free /\ ~is_collected(trace[n])
          /\ \A p \in UserNodes \ {n} : trace[p].data # n

C34_Witness ==
    /\ last.op = "cuda_dec_ref_ext"
    /\ Returned
    /\ Computed(last.pre.tr[Arg1])
    /\ last.pre.tr[Arg1].data # Null
    /\ last.pre.tr[Arg1].dep # ZeroDep
    /\ is_collected(trace[Arg1])
    /\ trace[Arg1].data = Null
    /\ mem[Arg1].allocs = 1
    /\ mem[Arg1].frees = 1

\* the dependency slots of the trace that name variable p
Consumers(p) == {s \in (DOMAIN trace) \X (1..3) : trace[s[1]].dep[s[2]] = p}

\* C35: as long as the caller keeps to cuda_trace_append, cuda_var_register,
\* cuda_inc_ref_ext, cuda_dec_ref_ext, the marks and cuda_eval, the internal
\* reference count of every user variable is the number of dependency slots
\* that name it.
C35_InternalCountIsSlotCount ==
    \A p \in UserNodes : trace[p].ref_count_int = Cardinality(Consumers(p))

C35_Witness ==
    /\ last.op = "cuda_eval"
    /\ Returned
    /\ \E p \in UserNodes :
          /\ last.pre.tr[p].ref_count_int = 2
          /\ trace[p].ref_count_int = 0
          /\ trace[p].ref_count_ext # 0
          /\ \E n \in UserNodes :
                last.pre.tr[n].dep[1] = p /\ last.pre.tr[n].dep[2] = p
\* C36: in every state, also after cuda_shutdown and a second cuda_init, every
\* entry of the dirty queue is an index of the trace, and every variable whose
\* dirty flag is set is in the queue.
C36_DirtyQueueMatchesTrace ==
    /\ \A k \in DOMAIN dirty : dirty[k] \in DOMAIN trace
    /\ \A n \in DOMAIN trace : trace[n].dirty => n \in Range(dirty)
RECURSIVE SubDag(_, _)

\* variable x of trace tr and everything it is computed from
SubDag(tr, x) ==
    {x} \cup UNION {SubDag(tr, tr[x].dep[j]) : j \in {i \in 1..3 : tr[x].dep[i] >= R}}

\* the position of variable v in schedule s
Pos(s, v) == CHOOSE i \in DOMAIN s : s[i] = v

\* schedule s holds all of h's sub-DAG before all of l's
HeavyFirst(tr, s, h, l) ==
    \A u \in SubDag(tr, h), v \in SubDag(tr, l) : Pos(s, u) < Pos(s, v)

\* n is the only seed of the call's cuda_eval and has the two operands h and
\* l, whose sub-DAGs are disjoint, h with the larger subtree_size
HeavyAndLight(n, h, l) ==
    /\ last.pre.active = {n}
    /\ last.pre.tr[n].dep \in {<<h, l, 0>>, <<l, h, 0>>}
    /\ h >= R
    /\ l >= R
    /\ SubDag(last.pre.tr, h) \cap SubDag(last.pre.tr, l) = {}
    /\ U32Less(last.pre.tr[l].subtree_size, last.pre.tr[h].subtree_size)

\* C37: when cuda_eval sweeps a variable with two operands h and l, nothing of
\* whose disjoint sub-DAGs is visited yet and subtree_size(h) is the larger,
\* the schedule holds h and all it is computed from before l and all it is
\* computed from, whichever slot h is in.
C37_HeavyOperandComesFirst ==
    (last.op = "cuda_eval" /\ last.n_eval >= 1) =>
        \A k \in DOMAIN last.sweeps :
        \A n \in Range(last.sweeps[k].schedule) :
        \A h, l \in Range(last.sweeps[k].schedule) :
           HeavyAndLight(n, h, l) =>
              HeavyFirst(last.pre.tr, last.sweeps[k].schedule, h, l)

C37_Witness ==
    /\ last.op = "cuda_eval"
    /\ Returned
    /\ Len(last.sweeps) = 1
    /\ \E n, h, l \in Range(last.sweeps[1].schedule) :
          /\ HeavyAndLight(n, h, l)
          /\ last.pre.tr[n].dep = <<l, h, 0>>
          /\ Cardinality(SubDag(last.pre.tr, h)) = 2
          /\ HeavyFirst(last.pre.tr, last.sweeps[1].schedule, h, l)
NotFound == "CUDABackend: internal error -- variable not found!"

\* C38: a cuda_eval in which every operand of a scheduled variable is in the
\* schedule, is a reserved variable or is 0 renders every $r placeholder: it
\* does not fail with the error of a variable that is not found.
C38_ReservedOperandsResolve ==
    (/\ last.op = "cuda_eval"
     /\ \A n \in Scheduled : \A j \in 1..3 :
           last.pre.tr[n].dep[j] \in Scheduled \cup (0..(R - 1)))
    => last.err # NotFound

\* C38 for the one reserved variable that is in the register map: a scheduled
\* variable computed from variable 2 alone is rendered without an error
C38_ThreadIndexResolves ==
    (/\ last.op = "cuda_eval"
     /\ \A n \in Scheduled :
           \/ last.pre.tr[n].cmd = Cmd0
           \/ last.pre.tr[n].cmd = Cmd1 /\ last.pre.tr[n].dep = <<2, 0, 0>>)
    => Returned
\* C39: a cuda_eval that directly follows a cuda_eval that returned launches no
\* kernel, returns, and leaves the trace (reference counts, dependencies,
\* device pointers and flags of every variable), the active set, the dirty
\* queue and the device memory as they were.
C39_EvalTwiceIsEvalOnce ==
    [][(last.op = "cuda_eval" /\ Returned /\ last'.op = "cuda_eval") =>
          /\ last'.err = ""
          /\ last'.n_run = 0
          /\ trace' = trace
          /\ active' = active
          /\ dirty' = dirty
          /\ mem' = mem
          /\ freed' = freed]_vars

C39_Witness ==
    /\ last.op = "cuda_eval"
    /\ Returned
    /\ last.n_run = 0
    /\ last.pre.active = {}
    /\ last.pre.dirty = <<>>
    /\ trace = last.pre.tr
    /\ \E n \in UserNodes :
          /\ Computed(trace[n])
          /\ trace[n].data # Null
          /\ trace[n].ref_count_ext # 0
    /\ \E n \in UserNodes : Computed(trace[n]) /\ is_collected(trace[n])
\* what cuda_eval may do to a variable that was v and is w
EvalFrame(v, w) ==
    /\ w.type = v.type
    /\ w.size = v.size
    /\ w.cmd = v.cmd
    /\ w.side_effect = v.side_effect
    /\ w.free = v.free
    /\ w.subtree_size = v.subtree_size
    /\ ~v.side_effect => w.ref_count_ext = v.ref_count_ext
    /\ v.side_effect => w.ref_count_ext <= v.ref_count_ext
    /\ w.ref_count_int <= v.ref_count_int
    /\ w.dirty => v.dirty
    /\ \A j \in 1..3 : w.dep[j] \in {0, v.dep[j]}
    /\ v.data # Null => w.data \in {Null, v.data}

\* C40: a cuda_eval, whatever its outcome, creates and removes no variable,
\* leaves the type, the size and the template of every variable and the
\* external count of every variable without a side effect as they were, and
\* otherwise only attaches buffers, lowers the external count of side-effect
\* variables, clears dirty flags, lowers internal counts and zeroes
\* dependency slots, and releases the buffers of the variables it collects.
C40_EvalFrame ==
    last.op = "cuda_eval" =>
        /\ DOMAIN trace = DOMAIN last.pre.tr
        /\ \A n \in DOMAIN trace : EvalFrame(last.pre.tr[n], trace[n])

C40_Witness ==
    /\ last.op = "cuda_eval"
    /\ Returned
    /\ last.freed_now # <<>>
    /\ \E n \in UserNodes :
          /\ last.pre.tr[n].side_effect
          /\ trace[n].ref_count_ext < last.pre.tr[n].ref_count_ext
    /\ \E n \in UserNodes :
          /\ ~trace[n].side_effect
          /\ trace[n].ref_count_ext # 0
          /\ NewBuffer(n)
          /\ last.pre.tr[n].dep # ZeroDep
          /\ trace[n].dep = ZeroDep
====
